------------------------------ MODULE Spec2Model ------------------------------
(***************************************************************************)
(* Document-search facade over an OpenSearch index (app/main.py and        *)
(* app/opensearch_client.py).  The facade operations /init, /seed and      *)
(* /search and the library functions ensure_index, seed_documents and      *)
(* search_documents are modelled as processes whose steps are the calls    *)
(* they make on the store; the store is the index registry, the stored     *)
(* documents and the set of documents a search can see.                    *)
(*                                                                         *)
(* Text (titles, bodies, query strings) is a sequence of code points, as a *)
(* Python str is; category labels are plain strings and an Optional[str]   *)
(* is the empty tuple (None) or a one-element tuple holding the string.    *)
(***************************************************************************)
EXTENDS Integers, Sequences, FiniteSets, TLC

VARIABLES
    indices,      \* store: index name -> the body it was created with
    docs,         \* store: the stored documents
    searchable,   \* store: the _id's a search sees (refreshed documents)
    documents,    \* seed_documents: the batch it iterates over
    pc,           \* per caller: where its current call stands
    op,           \* per caller: the operation it is running
    args,         \* per caller: the q and content_type it was called with
    exists,       \* per caller: what client.indices.exists answered
    i,            \* per caller: position of seed_documents' loop in the batch
    indexed,      \* per caller: seed_documents' counter
    wrote,        \* per caller: the _id's client.index returned to this call
    raised,       \* per caller: the exception a store call raised into it
    response      \* per caller: what the call answered

vars == << indices, docs, searchable, documents, pc, op, args, exists,
           i, indexed, wrote, raised, response >>

store == << indices, docs, searchable >>

-------------------------------------------------------------------------------
(* Bounds of the model *)

NumCallers == 2
MaxContentLen == 52

Callers == 1..NumCallers

-------------------------------------------------------------------------------
(* Program constants *)

ALLOWED_CONTENT_TYPES == << "article", "blog", "news", "faq" >>

INDEX_NAME == "articles_index"

Size == 50

SnippetLen == 50

None == << >>

Some(s) == << s >>

Min(a, b) == IF a < b THEN a ELSE b

Max(a, b) == IF a < b THEN b ELSE a

Range(s) == { s[k] : k \in 1..Len(s) }

\* Python's `x in list`
In(x, list) == x \in Range(list)

\* Python's truth value of an Optional[str]: None and "" are false
Truthy(o) == o # None /\ o[1] # ""

\* Python's s[:n]
Prefix(s, n) == SubSeq(s, 1, Min(n, Len(s)))

\* Python's dict.get(key, default)
Get(d, key, default) == IF key \in DOMAIN d THEN d[key] ELSE default

RECURSIVE JoinQuoted(_, _)
JoinQuoted(list, k) ==
    IF k > Len(list) THEN ""
    ELSE "'" \o list[k] \o "'" \o (IF k < Len(list) THEN ", " ELSE "")
         \o JoinQuoted(list, k + 1)

\* Python's str() of a list of strings, as an f-string formats it
ListRepr(list) == "[" \o JoinQuoted(list, 1) \o "]"

-------------------------------------------------------------------------------
(* The fixed batch of seed_documents *)

Title1 ==
    << 1053, 1086, 1074, 1086, 1089, 1090, 1080, 32, 1082, 1086, 1084, 1087,
       1072, 1085, 1080, 1080 >>
Content1 ==
    << 1053, 1072, 1096, 1072, 32, 1082, 1086, 1084, 1087, 1072, 1085, 1080,
       1103, 32, 1079, 1072, 1087, 1091, 1089, 1090, 1080, 1083, 1072, 32,
       1085, 1086, 1074, 1099, 1081, 32, 1087, 1088, 1086, 1076, 1091, 1082,
       1090, 32, 1076, 1083, 1103, 32, 1072, 1085, 1072, 1083, 1080, 1079,
       1072, 32, 1076, 1072, 1085, 1085, 1099, 1093, 46 >>
Title2 ==
    << 1050, 1072, 1082, 32, 1087, 1086, 1083, 1100, 1079, 1086, 1074, 1072,
       1090, 1100, 1089, 1103, 32, 1087, 1088, 1080, 1083, 1086, 1078, 1077,
       1085, 1080, 1077, 1084 >>
Content2 ==
    << 1042, 32, 1101, 1090, 1086, 1084, 32, 1088, 1091, 1082, 1086, 1074,
       1086, 1076, 1089, 1090, 1074, 1077, 32, 1084, 1099, 32, 1088, 1072,
       1089, 1089, 1082, 1072, 1078, 1077, 1084, 44, 32, 1082, 1072, 1082,
       32, 1085, 1072, 1095, 1072, 1090, 1100, 32, 1088, 1072, 1073, 1086,
       1090, 1091, 32, 1096, 1072, 1075, 32, 1079, 1072, 32, 1096, 1072,
       1075, 1086, 1084, 46 >>
Title3 ==
    << 1057, 1090, 1072, 1090, 1100, 1103, 32, 1086, 32, 1087, 1086, 1080,
       1089, 1082, 1077 >>
Content3 ==
    << 1055, 1086, 1080, 1089, 1082, 1086, 1074, 1099, 1077, 32, 1089, 1080,
       1089, 1090, 1077, 1084, 1099, 32, 1080, 1089, 1087, 1086, 1083, 1100,
       1079, 1091, 1102, 1090, 32, 1080, 1085, 1076, 1077, 1082, 1089, 1099,
       32, 1076, 1083, 1103, 32, 1073, 1099, 1089, 1090, 1088, 1086, 1075,
       1086, 32, 1087, 1086, 1080, 1089, 1082, 1072, 32, 1087, 1086, 32,
       1090, 1077, 1082, 1089, 1090, 1091, 46 >>
Title4 ==
    << 1041, 1083, 1086, 1075, 32, 1086, 32, 1087, 1088, 1086, 1076, 1091,
       1082, 1090, 1080, 1074, 1085, 1086, 1089, 1090, 1080 >>
Content4 ==
    << 1053, 1077, 1089, 1082, 1086, 1083, 1100, 1082, 1086, 32, 1089, 1086,
       1074, 1077, 1090, 1086, 1074, 32, 1086, 32, 1090, 1086, 1084, 44,
       32, 1082, 1072, 1082, 32, 1087, 1086, 1074, 1099, 1089, 1080, 1090,
       1100, 32, 1087, 1088, 1086, 1076, 1091, 1082, 1090, 1080, 1074, 1085,
       1086, 1089, 1090, 1100, 32, 1085, 1072, 32, 1088, 1072, 1073, 1086,
       1090, 1077, 46 >>
Title5 ==
    << 70, 65, 81, 58, 32, 1091, 1095, 1077, 1090, 1085, 1072, 1103,
       32, 1079, 1072, 1087, 1080, 1089, 1100 >>
Content5 ==
    << 1063, 1072, 1089, 1090, 1099, 1077, 32, 1074, 1086, 1087, 1088, 1086,
       1089, 1099, 32, 1086, 32, 1074, 1086, 1089, 1089, 1090, 1072, 1085,
       1086, 1074, 1083, 1077, 1085, 1080, 1080, 32, 1087, 1072, 1088, 1086,
       1083, 1103, 32, 1080, 32, 1085, 1072, 1089, 1090, 1088, 1086, 1081,
       1082, 1077, 32, 1087, 1088, 1086, 1092, 1080, 1083, 1103, 46 >>

Doc(t, c, ct) == [title |-> t, content |-> c, content_type |-> ct]

SeedBatch ==
    << Doc(Title1, Content1, "news"),
       Doc(Title2, Content2, "faq"),
       Doc(Title3, Content3, "article"),
       Doc(Title4, Content4, "blog"),
       Doc(Title5, Content5, "faq") >>

-------------------------------------------------------------------------------
(* The store: what the OpenSearch client calls do.  A "text" field is      *)
(* analysed by the standard analyzer (maximal runs of letters and digits,  *)
(* lower-cased); a "keyword" field is compared as it stands.               *)

IsWordChar(c) ==
    \/ c \in 48..57
    \/ c \in 65..90
    \/ c \in 97..122
    \/ c \in 1024..1279

LowerCase(c) ==
    IF c \in 65..90 THEN c + 32
    ELSE IF c \in 1040..1071 THEN c + 32
    ELSE IF c \in 1024..1039 THEN c + 80
    ELSE c

RECURSIVE Tokenize(_, _, _, _)
Tokenize(s, k, cur, acc) ==
    IF k > Len(s) THEN (IF cur = << >> THEN acc ELSE Append(acc, cur))
    ELSE IF IsWordChar(s[k])
         THEN Tokenize(s, k + 1, Append(cur, LowerCase(s[k])), acc)
         ELSE Tokenize(s, k + 1, << >>,
                       IF cur = << >> THEN acc ELSE Append(acc, cur))

Analyze(s) == Tokenize(s, 1, << >>, << >>)

\* (mutant) content_type mapped as a tokenized text field
MappingAllText ==
    [ settings |-> [number_of_shards |-> 1, number_of_replicas |-> 0],
      mappings |-> [properties |->
                      [ title |-> [type |-> "text"],
                        content |-> [type |-> "text"],
                        content_type |-> [type |-> "text"] ]] ]

\* the fixed mapping and settings ensure_index creates the index with
mapping ==
    [ settings |-> [number_of_shards |-> 1, number_of_replicas |-> 0],
      mappings |-> [properties |->
                      [ title |-> [type |-> "text"],
                        content |-> [type |-> "text"],
                        content_type |-> [type |-> "keyword"] ]] ]

\* a document as the store holds it: its _source and the terms of its
\* text fields
StoredDoc(id, index, source) ==
    [ _id |-> id, _index |-> index, _source |-> source,
      title_terms |-> Analyze(Get(source, "title", << >>)),
      content_terms |-> Analyze(Get(source, "content", << >>)) ]

Ids(ds) == { d._id : d \in ds }

\* the _id the store gives the k-th document a call writes: unique, and
\* otherwise without meaning
NewId(p, k) == << p, k >>

\* the order of the store on documents that score the same
IdBefore(a, b) == a[1] < b[1] \/ (a[1] = b[1] /\ a[2] < b[2])

Occurrences(terms, tokens) ==
    Cardinality({ k \in 1..Len(tokens) : tokens[k] \in terms })

\* multi_match over title^2 and content, type best_fields: the better of
\* the two field scores, the title's counted twice.  (A field's score is
\* taken as the number of its tokens that are query terms.)
Score(d, terms) ==
    Max(2 * Occurrences(terms, d.title_terms),
        Occurrences(terms, d.content_terms))

\* the bool query's filter: every term clause on content_type must hold
PassesFilter(d, filter_clauses) ==
    \A k \in 1..Len(filter_clauses) :
        /\ "content_type" \in DOMAIN d._source
        /\ d._source.content_type = filter_clauses[k]

\* best first, ties in the order of the store
Better(g, h) ==
    \/ g._score > h._score
    \/ g._score = h._score /\ IdBefore(g._id, h._id)

RECURSIVE Ranked(_)
Ranked(hs) ==
    IF hs = {} THEN << >>
    ELSE LET best == CHOOSE h \in hs : \A g \in hs \ {h} : Better(h, g)
         IN  << best >> \o Ranked(hs \ {best})

\* the documents of `index` a search with this body matches, ranked, before
\* the size cut
Matching(index, body) ==
    LET terms  == Range(Analyze(body.query))
        scored == { [ _id |-> d._id, _score |-> Score(d, terms), doc |-> d ] :
                    d \in { e \in docs : /\ e._index = index
                                         /\ e._id \in searchable
                                         /\ PassesFilter(e, body.filter) } }
    IN  Ranked({ h \in scored : h._score > 0 })

\* client.search: the response of the store, at most body.size hits with
\* the _source fields the body asks for
StoreSearch(index, body) ==
    LET top == Prefix(Matching(index, body), body.size)
    IN  [ hits |-> [ hits |->
            [ k \in 1..Len(top) |->
                [ _id |-> top[k]._id,
                  _score |-> top[k]._score,
                  _source |-> [ f \in DOMAIN top[k].doc._source \cap body._source
                                  |-> top[k].doc._source[f] ] ] ] ] ]

-------------------------------------------------------------------------------
(* What a call answers *)

NoResponse == [outcome |-> "none"]

Ok(v) == [outcome |-> "ok", value |-> v]

HttpError(status, detail) ==
    [outcome |-> "http_error", status |-> status, detail |-> detail]

\* an exception that leaves the call uncaught
Exception(name) == [outcome |-> "exception", error |-> name]

NoArgs == [q |-> << >>, content_type |-> None]

Goto(p, label) == pc' = [pc EXCEPT ![p] = label]

Finish(p, r) ==
    /\ pc' = [pc EXCEPT ![p] = "done"]
    /\ response' = [response EXCEPT ![p] = r]

\* callers are numbered in the order their calls arrive; each makes one call
Start(p, name, a) ==
    /\ pc[p] = "idle"
    /\ \A r \in Callers : r < p => pc[r] # "idle"
    /\ op' = [op EXCEPT ![p] = name]
    /\ args' = [args EXCEPT ![p] = a]

-------------------------------------------------------------------------------
(* search_documents *)

\* (mutant) the check of line 135-137 left out
NeverReject(content_type) == FALSE

\* line 135-137: a filter that is given and unknown ends the call with []
LenientReject(content_type) ==
    Truthy(content_type) /\ ~In(content_type[1], ALLOWED_CONTENT_TYPES)

\* (mutant) line 138 left out: the filter never reaches the query
NoFilterClauses(content_type) == << >>

\* line 134-138: the term clauses of the query's filter
filter_clauses(content_type) ==
    IF Truthy(content_type) THEN << content_type[1] >> ELSE << >>

\* line 139-148
SearchBody(query, content_type) ==
    [ query |-> query,
      filter |-> filter_clauses(content_type),
      _source |-> {"title", "content"},
      size |-> Size ]

\* (mutant) the slice of line 155 left out
WholeContent(content) == content

\* line 155: content[:50]
snippet(content) == Prefix(content, SnippetLen)

\* line 150-157: the records built from the store's response
Results(resp) ==
    LET hits == Get(Get(resp, "hits", << >>), "hits", << >>)
    IN  [ k \in 1..Len(hits) |->
            LET source == Get(hits[k], "_source", << >>)
            IN  [ title |-> Get(source, "title", << >>),
                  snippet |-> snippet(Get(source, "content", << >>)) ] ]

\* line 124-138: up to the store call
SearchDocumentsEntry(p, content_type) ==
    IF LenientReject(content_type)
    THEN Finish(p, Ok(<< >>))
    ELSE Goto(p, "search_exec") /\ UNCHANGED response

\* line 149-157: client.search and the projection of its hits
SearchExec(p) ==
    /\ pc[p] = "search_exec"
    /\ IF INDEX_NAME \in DOMAIN indices
       THEN /\ Finish(p, Ok(Results(StoreSearch(INDEX_NAME,
                        SearchBody(args[p].q, args[p].content_type)))))
            /\ UNCHANGED raised
       ELSE /\ raised' = [raised EXCEPT ![p] = "index_not_found_exception"]
            /\ Finish(p, Exception("index_not_found_exception"))
    /\ UNCHANGED << store, documents, op, args, exists, i, indexed, wrote >>

-------------------------------------------------------------------------------
(* seed_documents *)

\* (mutant) the check of line 104 left out
AdmitsAll(doc) == TRUE

\* line 104
SeedAdmits(doc) == In(doc.content_type, ALLOWED_CONTENT_TYPES)

\* (mutant) client.index without refresh=True
NoRefresh == FALSE

\* line 106: refresh=True
Refresh == TRUE

\* line 102-103: entering the loop
SeedEntry(p) ==
    IF Len(documents) = 0
    THEN Finish(p, Ok([indexed |-> 0]))
    ELSE Goto(p, "seed_loop") /\ UNCHANGED response

\* line 103, 108 and main.py line 51-52: the next document, or the answer
SeedAdvance(p, count) ==
    /\ i' = [i EXCEPT ![p] = i[p] + 1]
    /\ indexed' = [indexed EXCEPT ![p] = count]
    /\ IF i[p] = Len(documents)
       THEN Finish(p, Ok([indexed |-> count]))
       ELSE UNCHANGED << pc, response >>

\* (mutant) the exception caught inside the loop, which goes on
SwallowWriteError(p, e) == SeedAdvance(p, indexed[p])

\* the exception of client.index leaves seed_documents and the facade
OnWriteError(p, e) ==
    /\ Finish(p, Exception(e))
    /\ UNCHANGED << i, indexed >>

\* line 103-107: one round of the loop
SeedStep(p) ==
    /\ pc[p] = "seed_loop"
    /\ LET doc == documents[i[p]]
       IN  \/ IF SeedAdmits(doc)
              THEN /\ docs' = docs \cup
                                { StoredDoc(NewId(p, i[p]), INDEX_NAME, doc) }
                   /\ searchable' = IF Refresh THEN Ids(docs') ELSE searchable
                   /\ wrote' = [wrote EXCEPT ![p] =
                                  Append(wrote[p], NewId(p, i[p]))]
                   /\ SeedAdvance(p, indexed[p] + 1)
                   /\ UNCHANGED raised
              ELSE /\ SeedAdvance(p, indexed[p])
                   /\ UNCHANGED << docs, searchable, wrote, raised >>
           \/ /\ SeedAdmits(doc)
              /\ raised' = [raised EXCEPT ![p] = "ConnectionError"]
              /\ OnWriteError(p, "ConnectionError")
              /\ UNCHANGED << docs, searchable, wrote >>
    /\ UNCHANGED << indices, documents, op, args, exists >>

-------------------------------------------------------------------------------
(* ensure_index *)

\* (mutant) the existence check of line 60 ignored
AlwaysCreate(e) == TRUE

\* line 60: `if not client.indices.exists(...)`
NeedsCreate(e) == ~e

\* what follows ensure_index in the facade operation that called it
AfterEnsure(p) ==
    CASE op[p] = "init"   -> Finish(p, Ok([status |-> "ok", index |-> INDEX_NAME]))
      [] op[p] = "seed"   -> SeedEntry(p)
      [] op[p] = "search" -> SearchDocumentsEntry(p, args[p].content_type)

\* line 60: client.indices.exists
EnsureExists(p) ==
    /\ pc[p] = "ensure_exists"
    /\ LET e == INDEX_NAME \in DOMAIN indices
       IN  /\ exists' = [exists EXCEPT ![p] = e]
           /\ IF NeedsCreate(e)
              THEN Goto(p, "ensure_create") /\ UNCHANGED response
              ELSE AfterEnsure(p)
    /\ UNCHANGED << store, documents, op, args, i, indexed, wrote, raised >>

\* line 61: client.indices.create, which the store refuses for a name it has
EnsureCreate(p) ==
    /\ pc[p] = "ensure_create"
    /\ IF INDEX_NAME \in DOMAIN indices
       THEN /\ raised' = [raised EXCEPT ![p] = "resource_already_exists_exception"]
            /\ Finish(p, Exception("resource_already_exists_exception"))
            /\ UNCHANGED indices
       ELSE /\ indices' = [ n \in DOMAIN indices \cup {INDEX_NAME} |->
                              IF n = INDEX_NAME THEN mapping ELSE indices[n] ]
            /\ AfterEnsure(p)
            /\ UNCHANGED raised
    /\ UNCHANGED << docs, searchable, documents, op, args, exists,
                    i, indexed, wrote >>

-------------------------------------------------------------------------------
(* The facade (main.py) and the calls made on the library directly *)

Queries == { << >>, Title3 }

Filters == { None, Some(""), Some("bogus"), Some("faq") }

\* (mutant) the check of main.py line 70 left out
FacadeAccepts(content_type) == FALSE

\* main.py line 70: the facade's check of the filter
FacadeRejects(content_type) ==
    Truthy(content_type) /\ ~In(content_type[1], ALLOWED_CONTENT_TYPES)

\* main.py line 71
Detail == "content_type must be one of " \o ListRepr(ALLOWED_CONTENT_TYPES)

\* GET /init
RequestInit(p) ==
    /\ Start(p, "init", NoArgs)
    /\ Goto(p, "ensure_exists")
    /\ UNCHANGED << store, documents, exists, i, indexed, wrote, raised,
                    response >>

\* POST /seed
RequestSeed(p) ==
    /\ Start(p, "seed", NoArgs)
    /\ Goto(p, "ensure_exists")
    /\ UNCHANGED << store, documents, exists, i, indexed, wrote, raised,
                    response >>

\* GET /search: Query(..., min_length=1), the filter check, then ensure_index
RequestSearch(p) ==
    \E query \in Queries, content_type \in Filters :
        /\ Start(p, "search", [q |-> query, content_type |-> content_type])
        /\ \/ /\ Len(query) < 1
              /\ Finish(p, HttpError(422, "q: min_length 1"))
           \/ /\ Len(query) >= 1
              /\ FacadeRejects(content_type)
              /\ Finish(p, HttpError(400, Detail))
           \/ /\ Len(query) >= 1
              /\ ~FacadeRejects(content_type)
              /\ Goto(p, "ensure_exists")
              /\ UNCHANGED response
        /\ UNCHANGED << store, documents, exists, i, indexed, wrote, raised >>

\* search_documents called as a library function, not through the facade
CallSearchDocuments(p) ==
    \E query \in Queries, content_type \in Filters :
        /\ Start(p, "search_documents",
                 [q |-> query, content_type |-> content_type])
        /\ SearchDocumentsEntry(p, content_type)
        /\ UNCHANGED << store, documents, exists, i, indexed, wrote, raised >>

-------------------------------------------------------------------------------
(* The system: a fresh store, and callers that run the operations           *)
(* concurrently                                                             *)

InitCallers ==
    /\ pc = [p \in Callers |-> "idle"]
    /\ op = [p \in Callers |-> "none"]
    /\ args = [p \in Callers |-> NoArgs]
    /\ exists = [p \in Callers |-> FALSE]
    /\ i = [p \in Callers |-> 1]
    /\ indexed = [p \in Callers |-> 0]
    /\ wrote = [p \in Callers |-> << >>]
    /\ raised = [p \in Callers |-> "none"]
    /\ response = [p \in Callers |-> NoResponse]

Init ==
    /\ indices = << >>
    /\ docs = {}
    /\ searchable = {}
    /\ documents = SeedBatch
    /\ InitCallers

Next ==
    \E p \in Callers :
        \/ RequestInit(p)
        \/ RequestSeed(p)
        \/ RequestSearch(p)
        \/ CallSearchDocuments(p)
        \/ EnsureExists(p)
        \/ EnsureCreate(p)
        \/ SeedStep(p)
        \/ SearchExec(p)

Spec == Init /\ [][Next]_vars

-------------------------------------------------------------------------------
(* Ingestion of other batches: seed_documents' loop run over batches that   *)
(* also hold documents of a category outside the closed set, or nothing     *)

WithCategory(docList, k, ct) == [docList EXCEPT ![k].content_type = ct]

Batches ==
    { SeedBatch,
      WithCategory(SeedBatch, 2, "video"),
      WithCategory(WithCategory(SeedBatch, 1, "FAQ"), 5, ""),
      << >> }

InitAdmit ==
    /\ indices = << >>
    /\ docs = {}
    /\ searchable = {}
    /\ documents \in Batches
    /\ InitCallers

NextAdmit ==
    \E p \in Callers :
        \/ RequestSeed(p)
        \/ EnsureExists(p)
        \/ EnsureCreate(p)
        \/ SeedStep(p)

SpecAdmit == InitAdmit /\ [][NextAdmit]_vars

-------------------------------------------------------------------------------
(* Searching an index that holds a document written by another client: its  *)
(* _source may lack a field, and its content may be shorter than a snippet  *)

ContentLens == { 0, 1, SnippetLen - 1, SnippetLen, SnippetLen + 1, MaxContentLen }

ForeignSources ==
    { [title |-> Title3, content |-> Prefix(Content3, n), content_type |-> "article"] :
        n \in ContentLens }
    \cup { [title |-> Title3, content_type |-> "faq"] }
    \cup { [content |-> Prefix(Content3, n), content_type |-> "faq"] :
             n \in ContentLens }
    \cup { [title |-> Title3, content |-> Content5] }

InitShape ==
    /\ indices = [n \in {INDEX_NAME} |-> mapping]
    /\ \E src \in ForeignSources :
           docs = { StoredDoc(NewId(0, 1), INDEX_NAME, src) }
    /\ searchable = Ids(docs)
    /\ documents = SeedBatch
    /\ InitCallers

NextShape ==
    \E p \in Callers :
        \/ CallSearchDocuments(p)
        \/ SearchExec(p)

SpecShape == InitShape /\ [][NextShape]_vars

-------------------------------------------------------------------------------
(* Vocabulary of the properties *)

IndexExists == INDEX_NAME \in DOMAIN indices

\* caller p takes a step
Steps(p) == pc'[p] # pc[p] \/ i'[p] # i[p]

Known(ct) == ct \in {"article", "blog", "news", "faq"}

\* the filter is a string outside the closed set
UnknownFilter(content_type) == content_type # None /\ ~Known(content_type[1])

\* r is the first n characters of text, or all of it when it has fewer
FirstChars(r, text, n) ==
    /\ Len(r) = (IF Len(text) < n THEN Len(text) ELSE n)
    /\ \A j \in 1..Len(r) : r[j] = text[j]

\* record r is what a search shows of stored document d
Shows(r, d) ==
    /\ r.title = (IF "title" \in DOMAIN d._source THEN d._source.title ELSE << >>)
    /\ FirstChars(r.snippet,
                  IF "content" \in DOMAIN d._source THEN d._source.content ELSE << >>,
                  50)

StoredAs(id) == CHOOSE d \in docs : d._id = id

\* the documents of the batch before position k that carry a known category
AdmittedBefore(k) ==
    { j \in 1..(k - 1) : Known(documents[j].content_type) }

-------------------------------------------------------------------------------
(* C1: ensure_index on a store that has the collection issues no create,    *)
(* raises nothing and leaves the indices, their schema and the documents as *)
(* they were; so a second call after a first changes nothing.               *)
C1_EnsureIndexIdempotent ==
    [][ \A p \in Callers :
          (pc[p] = "ensure_exists" /\ IndexExists /\ Steps(p))
          => /\ store' = store
             /\ pc'[p] \notin {"ensure_exists", "ensure_create"}
             /\ raised'[p] = "none"
             /\ response'[p].outcome # "exception" ]_vars

\* an /init that found the collection in place, holding documents, returned ok
C1_Witness ==
    \E p \in Callers :
        /\ op[p] = "init" /\ pc[p] = "done" /\ exists[p]
        /\ response[p] = Ok([status |-> "ok", index |-> INDEX_NAME])
        /\ docs # {}

(* C2: seed_documents never writes and never counts a document whose        *)
(* category is outside article, blog, news, faq: every stored document has  *)
(* a category of the closed set, the documents a call has written are       *)
(* exactly the admissible ones it has passed, the counter equals their      *)
(* number, and the count returned is the number written (5 for the fixed    *)
(* batch).                                                                  *)
C2_IngestionFiltering ==
    /\ \A d \in docs : Known(d._source.content_type)
    /\ \A p \in Callers :
         op[p] = "seed" =>
           /\ Range(wrote[p]) = { NewId(p, k) : k \in AdmittedBefore(i[p]) }
           /\ indexed[p] = Cardinality(AdmittedBefore(i[p]))
           /\ Len(wrote[p]) = indexed[p]
           /\ \A k \in AdmittedBefore(i[p]) :
                \E d \in docs : d._id = NewId(p, k) /\ d._source = documents[k]
           /\ { d \in docs : d._id[1] = p } = { StoredAs(id) : id \in Range(wrote[p]) }
           /\ (pc[p] = "done" /\ response[p].outcome = "ok") =>
                /\ response[p].value.indexed = Len(wrote[p])
                /\ response[p].value.indexed =
                     Cardinality(AdmittedBefore(Len(documents) + 1))
                /\ (documents = SeedBatch => response[p].value.indexed = 5)

\* a seed call that skipped a document of an unknown category and returned
\* the smaller count
C2_Witness ==
    \E p \in Callers :
        /\ op[p] = "seed" /\ pc[p] = "done" /\ response[p].outcome = "ok"
        /\ \E k \in 1..Len(documents) : ~Known(documents[k].content_type)
        /\ response[p].value.indexed = Len(documents) - 1
        /\ Cardinality({ d \in docs : d._id[1] = p }) = Len(documents) - 1

(* C3: every document seed_documents has written is visible to search from  *)
(* the write on, between the writes of a batch as after its return: it is   *)
(* stored and searchable, and a search for its exact title returns it with  *)
(* a positive score (unless the page of 50 hits is full).                   *)
C3_ImmediateVisibility ==
    /\ Ids(docs) \subseteq searchable
    /\ \A p \in Callers : \A k \in 1..Len(wrote[p]) :
         LET id   == wrote[p][k]
             hits == StoreSearch(INDEX_NAME,
                         SearchBody(StoredAs(id)._source.title, None)).hits.hits
         IN  /\ id \in Ids(docs)
             /\ \/ \E n \in 1..Len(hits) : hits[n]._id = id /\ hits[n]._score > 0
                \/ Len(hits) = 50

\* a seed call stands between two writes while another caller's search
\* has returned the document written first
C3_Witness ==
    \E p, r \in Callers :
        /\ op[p] = "seed" /\ pc[p] = "seed_loop" /\ Len(wrote[p]) \in 1..4
        /\ op[r] = "search" /\ pc[r] = "done" /\ response[r].outcome = "ok"
        /\ Len(response[r].value) >= 1

(* C4 as stated: for every filter string outside the closed set the         *)
(* facade's search ends in the 400 error that lists the allowed set.        *)
C4_AsStated ==
    \A p \in Callers :
        (op[p] = "search" /\ Len(args[p].q) >= 1
           /\ UnknownFilter(args[p].content_type)
           /\ pc[p] = "done")
        => response[p] =
                HttpError(400, "content_type must be one of ['article', 'blog', 'news', 'faq']")

(* C4, amended: every non-empty filter string outside the closed set,       *)
(* given with a query of at least one character, makes the facade's search  *)
(* end in the 400 error whose message lists exactly article, blog, news,    *)
(* faq; no result list is returned for it.                                  *)
C4_FacadeRejectsUnknownFilter ==
    \A p \in Callers :
        (op[p] = "search" /\ Len(args[p].q) >= 1
           /\ UnknownFilter(args[p].content_type)
           /\ args[p].content_type[1] # "")
        => /\ pc[p] = "done"
           /\ response[p] =
                HttpError(400, "content_type must be one of ['article', 'blog', 'news', 'faq']")

\* the facade refused "bogus" while the collection held matching documents
C4_Witness ==
    \E p \in Callers :
        /\ op[p] = "search" /\ args[p].content_type = Some("bogus")
        /\ args[p].q = Title3
        /\ pc[p] = "done" /\ response[p].outcome = "http_error"
        /\ response[p].status = 400
        /\ docs # {}

(* C5 as stated: whatever search_documents returns for a filter string      *)
(* outside the closed set is the empty list.                                *)
C5_AsStated ==
    \A p \in Callers :
        (op[p] = "search_documents" /\ UnknownFilter(args[p].content_type)
           /\ pc[p] = "done" /\ response[p].outcome = "ok")
        => response[p].value = << >>

(* C5, amended: for every non-empty filter string outside the closed set    *)
(* search_documents returns the empty list and raises nothing, whatever the *)
(* collection holds (or whether it exists) and whatever the query text is.  *)
C5_LenientEmptyResult ==
    \A p \in Callers :
        (op[p] = "search_documents" /\ UnknownFilter(args[p].content_type)
           /\ args[p].content_type[1] # "")
        => /\ pc[p] = "done"
           /\ response[p] = Ok(<< >>)
           /\ raised[p] = "none"

\* search_documents answered [] for "bogus" though a stored document
\* matches the query
C5_Witness ==
    \E p \in Callers :
        /\ op[p] = "search_documents" /\ args[p].content_type = Some("bogus")
        /\ args[p].q = Title3
        /\ pc[p] = "done" /\ response[p] = Ok(<< >>)
        /\ \E d \in docs : d._id \in searchable /\ d._source.title = Title3

(* C6: a search with a filter f of the closed set, through the facade or    *)
(* search_documents, returns only records of stored documents whose         *)
(* content_type is f: each record shows such a document and shows no        *)
(* document of another category.                                            *)
C6_FilterHardConstraint ==
    \A p \in Callers :
        (op[p] \in {"search", "search_documents"} /\ pc[p] = "done"
           /\ response[p].outcome = "ok"
           /\ args[p].content_type # None /\ Known(args[p].content_type[1]))
        => \A k \in 1..Len(response[p].value) :
             /\ \E d \in docs : /\ Shows(response[p].value[k], d)
                                /\ d._source.content_type = args[p].content_type[1]
             /\ \A d \in docs : Shows(response[p].value[k], d)
                                  => d._source.content_type = args[p].content_type[1]

\* a search filtered on faq returned a record while a searchable document
\* of another category also matches its query
C6_Witness ==
    \E p \in Callers :
        /\ op[p] \in {"search", "search_documents"} /\ pc[p] = "done"
        /\ response[p].outcome = "ok"
        /\ args[p].content_type = Some("faq")
        /\ Len(response[p].value) >= 1
        /\ \E d \in docs : /\ d._source.content_type = "article"
                           /\ Score(d, Range(Analyze(args[p].q))) > 0

(* C7: every record search_documents returns carries the full title of a    *)
(* matched document and, as snippet, exactly the first 50 characters of its *)
(* content: the whole content when it has fewer, the empty string when the  *)
(* document has none; the call does not fail on such documents.             *)
C7_SnippetCorrectness ==
    \A p \in Callers :
        (op[p] = "search_documents" /\ pc[p] = "done")
        => /\ response[p].outcome = "ok"
           /\ \A k \in 1..Len(response[p].value) :
                \E d \in docs : Shows(response[p].value[k], d)

\* a record whose snippet is the whole of a content shorter than 50
\* characters
C7_Witness ==
    \E p \in Callers :
        /\ op[p] = "search_documents" /\ pc[p] = "done"
        /\ response[p].outcome = "ok"
        /\ Len(response[p].value) = 1
        /\ \E d \in docs :
             /\ "content" \in DOMAIN d._source
             /\ Len(d._source.content) = 49
             /\ response[p].value[1].snippet = d._source.content

(* C8: when the write of the k-th document fails, seed_documents ends at    *)
(* once with the error and no count, writes none of the later documents,    *)
(* and the k-1 documents it wrote before stay stored and searchable.        *)
C8_PartialBatchFailure ==
    \A p \in Callers :
        raised[p] = "ConnectionError" =>
          /\ op[p] = "seed" /\ pc[p] = "done"
          /\ response[p] = Exception("ConnectionError")
          /\ Len(wrote[p]) = i[p] - 1
          /\ \A k \in 1..(i[p] - 1) :
               /\ wrote[p][k] \in searchable
               /\ \E d \in docs : d._id = wrote[p][k] /\ d._source = documents[k]
          /\ \A d \in docs : d._id[1] = p => d._id \in Range(wrote[p])

\* the write of the third document failed; the first two are stored
C8_Witness ==
    \E p \in Callers :
        /\ raised[p] = "ConnectionError" /\ i[p] = 3 /\ Len(wrote[p]) = 2
        /\ Cardinality({ d \in docs : d._id[1] = p }) = 2

(* C9 as stated: no step of a facade search (search_documents included)     *)
(* changes the store.                                                       *)
C9_AsStated ==
    [][ \A p \in Callers :
          (op'[p] = "search" /\ Steps(p)) => store' = store ]_vars

(* C9, amended: search_documents changes nothing in the store, and a facade *)
(* search leaves the documents and every existing collection with its       *)
(* schema as they were; the one change it can make is to create the         *)
(* configured collection, empty and with the fixed schema, when that did    *)
(* not exist.                                                               *)
C9_SearchReadOnly ==
    [][ \A p \in Callers :
          (op'[p] \in {"search", "search_documents"} /\ Steps(p))
          => /\ docs' = docs
             /\ searchable' = searchable
             /\ \/ indices' = indices
                \/ /\ op[p] = "search"
                   /\ ~IndexExists
                   /\ DOMAIN indices' = DOMAIN indices \cup {INDEX_NAME}
                   /\ \A n \in DOMAIN indices : indices'[n] = indices[n]
                   /\ indices'[INDEX_NAME].settings =
                        [number_of_shards |-> 1, number_of_replicas |-> 0]
                   /\ indices'[INDEX_NAME].mappings.properties =
                        [ title |-> [type |-> "text"],
                          content |-> [type |-> "text"],
                          content_type |-> [type |-> "keyword"] ] ]_vars

\* a facade search that did not find the collection has created it and
\* returned
C9_Witness ==
    \E p \in Callers :
        /\ op[p] = "search" /\ pc[p] = "done" /\ response[p].outcome = "ok"
        /\ ~exists[p]
        /\ IndexExists

(* C10: under every interleaving of concurrent ensure_index calls no call   *)
(* ends in the store's "already exists" error.                              *)
C10_NoAlreadyExistsError ==
    \A p \in Callers : raised[p] # "resource_already_exists_exception"

===============================================================================
